---------------------------- MODULE Spec2Model ----------------------------
(***************************************************************************)
(* Operand access and effective-address layer of the 8088 CPU core        *)
(* (src/cpu/cpu_addressing.rs): calc_effective_address and the four       *)
(* accessors read_operand8, read_operand16, write_operand8 and            *)
(* write_operand16, acting on the Cpu register fields and on the bus.     *)
(***************************************************************************)
EXTENDS Integers, Sequences, FiniteSets

VARIABLES
    cpu,      \* the Cpu register fields read and written by the accessors
    last,     \* the most recent call: its arguments, what the bus answered, its result
    nwrites   \* number of register writes made so far

vars == <<cpu, last, nwrites>>

---------------------------------------------------------------------------
(* Bounds of the exploration *)

\* Register writes explored in one run of the register specification.
MaxWrites == 2

\* 8-bit and 16-bit values written, read from the bus, or carried by immediates.
ByteVals == {90, 255}
WordVals == {255, 48879}

\* Signed displacements carried by the ModRM forms (i8 and i16).
Disp8Vals  == {-128, -1, 1, 4}
Disp16Vals == {-32768, -1, 1, 16}

\* Signed relative operands (i8 and i16).
Rel8Vals  == {-2, 5}
Rel16Vals == {-2, 5}

\* Values of the base and index registers BX, BP, SI, DI.
BaseVals == {80, 512, 4096, 65535}

\* Cycle costs the bus may report for one access.
BusCosts == {4, 8}

---------------------------------------------------------------------------
(* arch: SegmentOverride, Displacement, AddressingMode, registers, OperandType *)

SegmentOverrides ==
    {"NoOverride", "SegmentES", "SegmentCS", "SegmentSS", "SegmentDS"}

Register8Ids == {"AH", "AL", "BH", "BL", "CH", "CL", "DH", "DL"}

\* The twelve identities the accessors accept.
LegalRegister16Ids ==
    {"AX", "CX", "DX", "BX", "SP", "BP", "SI", "DI", "ES", "CS", "SS", "DS"}

\* Register16 has identities beyond the twelve (the `_ =>` arms).
Register16Ids == LegalRegister16Ids \cup {"InvalidRegister"}

NoDispModes == {"BxSi", "BxDi", "BpSi", "BpDi", "Si", "Di", "Bx"}

Disp8Modes ==
    {"BxSiDisp8", "BxDiDisp8", "BpSiDisp8", "BpDiDisp8",
     "SiDisp8", "DiDisp8", "BpDisp8", "BxDisp8"}

Disp16Modes ==
    {"Disp16", "BxSiDisp16", "BxDiDisp16", "BpSiDisp16", "BpDiDisp16",
     "SiDisp16", "DiDisp16", "BpDisp16", "BxDisp16"}

Disp8(d)  == [kind |-> "Disp8", val |-> d]
Disp16(d) == [kind |-> "Disp16", val |-> d]

\* Every AddressingMode value that names a memory location.
MemoryModes ==
    {[name |-> n] : n \in NoDispModes}
    \cup {[name |-> n, disp |-> Disp8(d)] : n \in Disp8Modes, d \in Disp8Vals}
    \cup {[name |-> n, disp |-> Disp16(d)] : n \in Disp16Modes, d \in Disp16Vals}

RegisterMode == [name |-> "RegisterMode"]

AddressingModes == MemoryModes \cup {RegisterMode}

Reg8Operand(r)  == [kind |-> "Register8", reg |-> r]
Reg16Operand(r) == [kind |-> "Register16", reg |-> r]
ModeOperand(m)  == [kind |-> "AddressingMode", mode |-> m]

Register8Operands  == {Reg8Operand(r) : r \in Register8Ids}
Register16Operands == {Reg16Operand(r) : r \in Register16Ids}
MemoryOperands     == {ModeOperand(m) : m \in AddressingModes}

\* The operand kinds that name neither a register nor a memory location.
OtherOperands ==
    {[kind |-> "Immediate8", val |-> v] : v \in ByteVals}
    \cup {[kind |-> "Immediate16", val |-> v] : v \in WordVals}
    \cup {[kind |-> "Relative8", val |-> v] : v \in Rel8Vals}
    \cup {[kind |-> "Relative16", val |-> v] : v \in Rel16Vals}
    \cup {[kind |-> "Offset8", val |-> v] : v \in WordVals}
    \cup {[kind |-> "Offset16", val |-> v] : v \in WordVals}
    \cup {[kind |-> "NearAddress", val |-> v] : v \in WordVals}
    \cup {[kind |-> "FarAddress", segment |-> s, offset |-> o] :
              s \in WordVals, o \in WordVals}
    \cup {[kind |-> "NoOperand"], [kind |-> "InvalidOperand"]}

Operands ==
    OtherOperands \cup Register8Operands \cup Register16Operands
    \cup MemoryOperands

---------------------------------------------------------------------------
(* Fixed-width arithmetic *)

\* u16::wrapping_add
wrapping_add_nowrap(a, b) == a + b
wrapping_add(a, b) == (a + b) % 65536

\* Displacement::get_u16: the displacement's two's-complement bits as a u16
\* (an i8 is sign-extended to 16 bits first).
get_u16(disp) == disp.val % 65536

\* `rel8 as u8` and `rel16 as u16`: two's-complement reinterpretation.
as_u8(v)  == v % 256
as_u16(v) == v % 65536

\* util::get_linear_address: segment:offset folded into the 20-bit space.
get_linear_address(segment, offset) == (segment * 16 + offset) % 1048576

---------------------------------------------------------------------------
(* Cpu register file *)

HighByte(w) == w \div 256
LowByte(w)  == w % 256

\* A register file whose 8-bit fields agree with the 16-bit fields they alias.
MakeCpu(ax, bx, cx, dx, sp, bp, si, di, es, cs, ss, ds) ==
    [ax |-> ax, ah |-> HighByte(ax), al |-> LowByte(ax),
     bx |-> bx, bh |-> HighByte(bx), bl |-> LowByte(bx),
     cx |-> cx, ch |-> HighByte(cx), cl |-> LowByte(cx),
     dx |-> dx, dh |-> HighByte(dx), dl |-> LowByte(dx),
     sp |-> sp, bp |-> bp, si |-> si, di |-> di,
     es |-> es, cs |-> cs, ss |-> ss, ds |-> ds]

---------------------------------------------------------------------------
(* calc_effective_address *)

segment_base_default_ds(c, segment) ==
    CASE segment = "NoOverride" -> c.ds
      [] segment = "SegmentES"  -> c.es
      [] segment = "SegmentCS"  -> c.cs
      [] segment = "SegmentSS"  -> c.ss
      [] segment = "SegmentDS"  -> c.ds

segment_base_default_ss_as_ds(c, segment) ==
    CASE segment = "NoOverride" -> c.ds
      [] segment = "SegmentES"  -> c.es
      [] segment = "SegmentCS"  -> c.cs
      [] segment = "SegmentSS"  -> c.ss
      [] segment = "SegmentDS"  -> c.ds

segment_base_default_ss(c, segment) ==
    CASE segment = "NoOverride" -> c.ss
      [] segment = "SegmentES"  -> c.es
      [] segment = "SegmentCS"  -> c.cs
      [] segment = "SegmentSS"  -> c.ss
      [] segment = "SegmentDS"  -> c.ds

EA(segment, offset) == [tag |-> "ok", segment |-> segment, offset |-> offset]
EAPanic == [tag |-> "panic", msg |-> "Can't calculate EA for register"]

calc_effective_address(c, mode, segment) ==
    LET ds_seg == segment_base_default_ds(c, segment)
        ss_seg == segment_base_default_ss(c, segment)
        n == mode.name
    IN  CASE n = "BxSi"   -> EA(ds_seg, wrapping_add(c.bx, c.si))
          [] n = "BxDi"   -> EA(ds_seg, wrapping_add(c.bx, c.di))
          [] n = "BpSi"   -> EA(ss_seg, wrapping_add(c.bp, c.si))
          [] n = "BpDi"   -> EA(ss_seg, wrapping_add(c.bp, c.di))
          [] n = "Si"     -> EA(ds_seg, c.si)
          [] n = "Di"     -> EA(ds_seg, c.di)
          [] n = "Disp16" -> EA(ds_seg, get_u16(mode.disp))
          [] n = "Bx"     -> EA(ds_seg, c.bx)
          [] n \in {"BxSiDisp8", "BxSiDisp16"} ->
                EA(ds_seg, wrapping_add(c.bx, wrapping_add(c.si, get_u16(mode.disp))))
          [] n \in {"BxDiDisp8", "BxDiDisp16"} ->
                EA(ds_seg, wrapping_add(c.bx, wrapping_add(c.di, get_u16(mode.disp))))
          [] n \in {"BpSiDisp8", "BpSiDisp16"} ->
                EA(ss_seg, wrapping_add(c.bp, wrapping_add(c.si, get_u16(mode.disp))))
          [] n \in {"BpDiDisp8", "BpDiDisp16"} ->
                EA(ss_seg, wrapping_add(c.bp, wrapping_add(c.di, get_u16(mode.disp))))
          [] n \in {"SiDisp8", "SiDisp16"} ->
                EA(ds_seg, wrapping_add(c.si, get_u16(mode.disp)))
          [] n \in {"DiDisp8", "DiDisp16"} ->
                EA(ds_seg, wrapping_add(c.di, get_u16(mode.disp)))
          [] n \in {"BpDisp8", "BpDisp16"} ->
                EA(ss_seg, wrapping_add(c.bp, get_u16(mode.disp)))
          [] n \in {"BxDisp8", "BxDisp16"} ->
                EA(ds_seg, wrapping_add(c.bx, get_u16(mode.disp)))
          [] n = "RegisterMode" -> EAPanic


---------------------------------------------------------------------------
(* Bus: what one access is answered with *)

BusOkData(data, cost) == [ok |-> TRUE, data |-> data, cost |-> cost]
BusOk(cost)           == [ok |-> TRUE, cost |-> cost]
BusErr                == [ok |-> FALSE]

\* Result<(u8, cost), BusError>, Result<(u16, cost), BusError>, Result<cost, BusError>
BusRead8Answers  == {BusOkData(d, k) : d \in ByteVals, k \in BusCosts} \cup {BusErr}
BusRead16Answers == {BusOkData(d, k) : d \in WordVals, k \in BusCosts} \cup {BusErr}
BusWriteAnswers  == {BusOk(k) : k \in BusCosts} \cup {BusErr}

\* The answers to try for a call on `operand`: only an AddressingMode operand
\* reaches the bus, so for any other operand one answer stands for all.
AnswersFor(operand, answers) ==
    IF operand.kind = "AddressingMode" THEN answers
    ELSE {CHOOSE a \in answers : TRUE}

BusRead(kind, addr, answer) ==
    [kind |-> kind, addr |-> addr, answer |-> answer]
BusWrite(kind, addr, value, answer) ==
    [kind |-> kind, addr |-> addr, value |-> value, answer |-> answer]

---------------------------------------------------------------------------
(* What a call of an accessor ends with *)

Some(v) == [tag |-> "Some", val |-> v]
None    == [tag |-> "None"]
Unit    == [tag |-> "Unit"]
Unwound == [tag |-> "Unwound"]

\* The call returned `ret` to its caller, leaving the registers as `c`.
Returned(c, ret, bus) ==
    [outcome |-> "returned", ret |-> ret, cpu |-> c, bus |-> bus]

\* The call panicked: nothing is returned, the session is aborted.
Panicked(c, bus) ==
    [outcome |-> "panic", ret |-> Unwound, cpu |-> c, bus |-> bus]

---------------------------------------------------------------------------
(* Cpu::set_register8 and Cpu::set_register16 *)

set_register8(c, reg, value) ==
    CASE reg = "AH" -> [c EXCEPT !.ah = value, !.ax = LowByte(c.ax) + value * 256]
      [] reg = "AL" -> [c EXCEPT !.al = value, !.ax = HighByte(c.ax) * 256 + value]
      [] reg = "BH" -> [c EXCEPT !.bh = value, !.bx = LowByte(c.bx) + value * 256]
      [] reg = "BL" -> [c EXCEPT !.bl = value, !.bx = HighByte(c.bx) * 256 + value]
      [] reg = "CH" -> [c EXCEPT !.ch = value, !.cx = LowByte(c.cx) + value * 256]
      [] reg = "CL" -> [c EXCEPT !.cl = value, !.cx = HighByte(c.cx) * 256 + value]
      [] reg = "DH" -> [c EXCEPT !.dh = value, !.dx = LowByte(c.dx) + value * 256]
      [] reg = "DL" -> [c EXCEPT !.dl = value, !.dx = HighByte(c.dx) * 256 + value]

set_register16(c, reg, value) ==
    CASE reg = "AX" -> [c EXCEPT !.ax = value, !.ah = HighByte(value), !.al = LowByte(value)]
      [] reg = "BX" -> [c EXCEPT !.bx = value, !.bh = HighByte(value), !.bl = LowByte(value)]
      [] reg = "CX" -> [c EXCEPT !.cx = value, !.ch = HighByte(value), !.cl = LowByte(value)]
      [] reg = "DX" -> [c EXCEPT !.dx = value, !.dh = HighByte(value), !.dl = LowByte(value)]
      [] reg = "SP" -> [c EXCEPT !.sp = value]
      [] reg = "BP" -> [c EXCEPT !.bp = value]
      [] reg = "SI" -> [c EXCEPT !.si = value]
      [] reg = "DI" -> [c EXCEPT !.di = value]
      [] reg = "ES" -> [c EXCEPT !.es = value]
      [] reg = "CS" -> [c EXCEPT !.cs = value]
      [] reg = "SS" -> [c EXCEPT !.ss = value]
      [] reg = "DS" -> [c EXCEPT !.ds = value]

---------------------------------------------------------------------------
(* read_operand8 *)

read_register8_swapped(c, reg8) ==
    CASE reg8 = "AH" -> Some(c.al)
      [] reg8 = "AL" -> Some(c.ah)
      [] reg8 = "BH" -> Some(c.bh)
      [] reg8 = "BL" -> Some(c.bl)
      [] reg8 = "CH" -> Some(c.ch)
      [] reg8 = "CL" -> Some(c.cl)
      [] reg8 = "DH" -> Some(c.dh)
      [] reg8 = "DL" -> Some(c.dl)

\* The Register8 arm.
read_register8(c, reg8) ==
    CASE reg8 = "AH" -> Some(c.ah)
      [] reg8 = "AL" -> Some(c.al)
      [] reg8 = "BH" -> Some(c.bh)
      [] reg8 = "BL" -> Some(c.bl)
      [] reg8 = "CH" -> Some(c.ch)
      [] reg8 = "CL" -> Some(c.cl)
      [] reg8 = "DH" -> Some(c.dh)
      [] reg8 = "DL" -> Some(c.dl)

read_memory8_unfolded(c, mode, seg_override, answer) ==
    LET ea == calc_effective_address(c, mode, seg_override)
    IN  IF ea.tag = "panic" THEN Panicked(c, <<>>)
        ELSE LET flat_addr == ea.segment * 16 + ea.offset
                 bus == <<BusRead("read_u8", flat_addr, answer)>>
             IN  IF answer.ok THEN Returned(c, Some(answer.data), bus)
                 ELSE Panicked(c, bus)

\* The AddressingMode arm: one byte read at the linear address; unwrap()
\* panics when the bus answers Err, and read_cost is dropped.
read_memory8(c, mode, seg_override, answer) ==
    LET ea == calc_effective_address(c, mode, seg_override)
    IN  IF ea.tag = "panic" THEN Panicked(c, <<>>)
        ELSE LET flat_addr == get_linear_address(ea.segment, ea.offset)
                 bus == <<BusRead("read_u8", flat_addr, answer)>>
             IN  IF answer.ok THEN Returned(c, Some(answer.data), bus)
                 ELSE Panicked(c, bus)

read_operand8_reg16_low(c, operand, seg_override, answer) ==
    LET k == operand.kind
    IN  CASE k = "Immediate8"     -> Returned(c, Some(operand.val), <<>>)
          [] k = "Immediate16"    -> Returned(c, None, <<>>)
          [] k = "Relative8"      -> Returned(c, Some(as_u8(operand.val)), <<>>)
          [] k = "Relative16"     -> Returned(c, None, <<>>)
          [] k = "Offset8"        -> Returned(c, None, <<>>)
          [] k = "Offset16"       -> Returned(c, None, <<>>)
          [] k = "Register8"      -> Returned(c, read_register8(c, operand.reg), <<>>)
          [] k = "Register16"     -> Returned(c, Some(c.al), <<>>)
          [] k = "AddressingMode" -> read_memory8(c, operand.mode, seg_override, answer)
          [] k = "NearAddress"    -> Returned(c, None, <<>>)
          [] k = "FarAddress"     -> Returned(c, None, <<>>)
          [] k = "NoOperand"      -> Returned(c, None, <<>>)
          [] k = "InvalidOperand" -> Returned(c, None, <<>>)

read_operand8(c, operand, seg_override, answer) ==
    LET k == operand.kind
    IN  CASE k = "Immediate8"     -> Returned(c, Some(operand.val), <<>>)
          [] k = "Immediate16"    -> Returned(c, None, <<>>)
          [] k = "Relative8"      -> Returned(c, Some(as_u8(operand.val)), <<>>)
          [] k = "Relative16"     -> Returned(c, None, <<>>)
          [] k = "Offset8"        -> Returned(c, None, <<>>)
          [] k = "Offset16"       -> Returned(c, None, <<>>)
          [] k = "Register8"      -> Returned(c, read_register8(c, operand.reg), <<>>)
          [] k = "Register16"     -> Returned(c, None, <<>>)
          [] k = "AddressingMode" -> read_memory8(c, operand.mode, seg_override, answer)
          [] k = "NearAddress"    -> Returned(c, None, <<>>)
          [] k = "FarAddress"     -> Returned(c, None, <<>>)
          [] k = "NoOperand"      -> Returned(c, None, <<>>)
          [] k = "InvalidOperand" -> Returned(c, None, <<>>)

---------------------------------------------------------------------------
(* read_operand16 *)

read_register16_ax_as_cx(c, reg16) ==
    CASE reg16 = "AX" -> Returned(c, Some(c.cx), <<>>)
      [] reg16 = "CX" -> Returned(c, Some(c.cx), <<>>)
      [] reg16 = "DX" -> Returned(c, Some(c.dx), <<>>)
      [] reg16 = "BX" -> Returned(c, Some(c.bx), <<>>)
      [] reg16 = "SP" -> Returned(c, Some(c.sp), <<>>)
      [] reg16 = "BP" -> Returned(c, Some(c.bp), <<>>)
      [] reg16 = "SI" -> Returned(c, Some(c.si), <<>>)
      [] reg16 = "DI" -> Returned(c, Some(c.di), <<>>)
      [] reg16 = "ES" -> Returned(c, Some(c.es), <<>>)
      [] reg16 = "CS" -> Returned(c, Some(c.cs), <<>>)
      [] reg16 = "SS" -> Returned(c, Some(c.ss), <<>>)
      [] reg16 = "DS" -> Returned(c, Some(c.ds), <<>>)
      [] OTHER        -> Panicked(c, <<>>)

\* The Register16 arm; an identity outside the twelve panics.
read_register16(c, reg16) ==
    CASE reg16 = "AX" -> Returned(c, Some(c.ax), <<>>)
      [] reg16 = "CX" -> Returned(c, Some(c.cx), <<>>)
      [] reg16 = "DX" -> Returned(c, Some(c.dx), <<>>)
      [] reg16 = "BX" -> Returned(c, Some(c.bx), <<>>)
      [] reg16 = "SP" -> Returned(c, Some(c.sp), <<>>)
      [] reg16 = "BP" -> Returned(c, Some(c.bp), <<>>)
      [] reg16 = "SI" -> Returned(c, Some(c.si), <<>>)
      [] reg16 = "DI" -> Returned(c, Some(c.di), <<>>)
      [] reg16 = "ES" -> Returned(c, Some(c.es), <<>>)
      [] reg16 = "CS" -> Returned(c, Some(c.cs), <<>>)
      [] reg16 = "SS" -> Returned(c, Some(c.ss), <<>>)
      [] reg16 = "DS" -> Returned(c, Some(c.ds), <<>>)
      [] OTHER        -> Panicked(c, <<>>)

\* The AddressingMode arm: one word read at the linear address.
read_memory16(c, mode, seg_override, answer) ==
    LET ea == calc_effective_address(c, mode, seg_override)
    IN  IF ea.tag = "panic" THEN Panicked(c, <<>>)
        ELSE LET flat_addr == get_linear_address(ea.segment, ea.offset)
                 bus == <<BusRead("read_u16", flat_addr, answer)>>
             IN  IF answer.ok THEN Returned(c, Some(answer.data), bus)
                 ELSE Panicked(c, bus)

read_operand16(c, operand, seg_override, answer) ==
    LET k == operand.kind
    IN  CASE k = "Immediate8"     -> Returned(c, None, <<>>)
          [] k = "Immediate16"    -> Returned(c, Some(operand.val), <<>>)
          [] k = "Relative8"      -> Returned(c, None, <<>>)
          [] k = "Relative16"     -> Returned(c, Some(as_u16(operand.val)), <<>>)
          [] k = "Offset8"        -> Returned(c, None, <<>>)
          [] k = "Offset16"       -> Returned(c, None, <<>>)
          [] k = "Register8"      -> Returned(c, None, <<>>)
          [] k = "Register16"     -> read_register16(c, operand.reg)
          [] k = "AddressingMode" -> read_memory16(c, operand.mode, seg_override, answer)
          [] k = "NearAddress"    -> Returned(c, None, <<>>)
          [] k = "FarAddress"     -> Returned(c, None, <<>>)
          [] k = "NoOperand"      -> Returned(c, None, <<>>)
          [] k = "InvalidOperand" -> Returned(c, None, <<>>)


---------------------------------------------------------------------------
(* write_operand8 *)

\* The Register8 arm.
write_register8(c, reg8, value) ==
    Returned(set_register8(c, reg8, value), Unit, <<>>)

\* The AddressingMode arm: one byte write at the linear address; unwrap()
\* panics when the bus answers Err, and write_cost is dropped.
write_memory8(c, mode, seg_override, value, answer) ==
    LET ea == calc_effective_address(c, mode, seg_override)
    IN  IF ea.tag = "panic" THEN Panicked(c, <<>>)
        ELSE LET flat_addr == get_linear_address(ea.segment, ea.offset)
                 bus == <<BusWrite("write_u8", flat_addr, value, answer)>>
             IN  IF answer.ok THEN Returned(c, Unit, bus)
                 ELSE Panicked(c, bus)

write_operand8_reg16_low(c, operand, seg_override, value, answer) ==
    LET k == operand.kind
    IN  CASE k = "Immediate8"     -> Returned(c, Unit, <<>>)
          [] k = "Immediate16"    -> Returned(c, Unit, <<>>)
          [] k = "Relative8"      -> Returned(c, Unit, <<>>)
          [] k = "Relative16"     -> Returned(c, Unit, <<>>)
          [] k = "Offset8"        -> Returned(c, Unit, <<>>)
          [] k = "Offset16"       -> Returned(c, Unit, <<>>)
          [] k = "Register8"      -> write_register8(c, operand.reg, value)
          [] k = "Register16"     -> write_register8(c, "AL", value)
          [] k = "AddressingMode" ->
                write_memory8(c, operand.mode, seg_override, value, answer)
          [] k = "NearAddress"    -> Returned(c, Unit, <<>>)
          [] k = "FarAddress"     -> Returned(c, Unit, <<>>)
          [] k = "NoOperand"      -> Returned(c, Unit, <<>>)
          [] k = "InvalidOperand" -> Returned(c, Unit, <<>>)

write_operand8(c, operand, seg_override, value, answer) ==
    LET k == operand.kind
    IN  CASE k = "Immediate8"     -> Returned(c, Unit, <<>>)
          [] k = "Immediate16"    -> Returned(c, Unit, <<>>)
          [] k = "Relative8"      -> Returned(c, Unit, <<>>)
          [] k = "Relative16"     -> Returned(c, Unit, <<>>)
          [] k = "Offset8"        -> Returned(c, Unit, <<>>)
          [] k = "Offset16"       -> Returned(c, Unit, <<>>)
          [] k = "Register8"      -> write_register8(c, operand.reg, value)
          [] k = "Register16"     -> Returned(c, Unit, <<>>)
          [] k = "AddressingMode" ->
                write_memory8(c, operand.mode, seg_override, value, answer)
          [] k = "NearAddress"    -> Returned(c, Unit, <<>>)
          [] k = "FarAddress"     -> Returned(c, Unit, <<>>)
          [] k = "NoOperand"      -> Returned(c, Unit, <<>>)
          [] k = "InvalidOperand" -> Returned(c, Unit, <<>>)

---------------------------------------------------------------------------
(* write_operand16 *)

\* The Register16 arm; an identity outside the twelve panics.
write_register16(c, reg16, value) ==
    IF reg16 \in LegalRegister16Ids
    THEN Returned(set_register16(c, reg16, value), Unit, <<>>)
    ELSE Panicked(c, <<>>)

write_memory16_no_ea_check(c, mode, seg_override, value, answer) ==
    LET flat_addr == 0
        bus == <<BusWrite("write_u16", flat_addr, value, answer)>>
    IN  IF answer.ok THEN Returned(c, Unit, bus)
        ELSE Panicked(c, bus)

\* The AddressingMode arm: one word write at the linear address.
write_memory16(c, mode, seg_override, value, answer) ==
    LET ea == calc_effective_address(c, mode, seg_override)
    IN  IF ea.tag = "panic" THEN Panicked(c, <<>>)
        ELSE LET flat_addr == get_linear_address(ea.segment, ea.offset)
                 bus == <<BusWrite("write_u16", flat_addr, value, answer)>>
             IN  IF answer.ok THEN Returned(c, Unit, bus)
                 ELSE Panicked(c, bus)

write_operand16(c, operand, seg_override, value, answer) ==
    LET k == operand.kind
    IN  CASE k = "Immediate8"     -> Returned(c, Unit, <<>>)
          [] k = "Immediate16"    -> Returned(c, Unit, <<>>)
          [] k = "Relative8"      -> Returned(c, Unit, <<>>)
          [] k = "Relative16"     -> Returned(c, Unit, <<>>)
          [] k = "Offset8"        -> Returned(c, Unit, <<>>)
          [] k = "Offset16"       -> Returned(c, Unit, <<>>)
          [] k = "Register8"      -> Returned(c, Unit, <<>>)
          [] k = "Register16"     -> write_register16(c, operand.reg, value)
          [] k = "AddressingMode" ->
                write_memory16(c, operand.mode, seg_override, value, answer)
          [] k = "NearAddress"    -> Returned(c, Unit, <<>>)
          [] k = "FarAddress"     -> Returned(c, Unit, <<>>)
          [] k = "NoOperand"      -> Returned(c, Unit, <<>>)
          [] k = "InvalidOperand" -> Returned(c, Unit, <<>>)

---------------------------------------------------------------------------
(* The state machine: one step is one call made by the execution layer *)

NoCall == [op |-> "none", outcome |-> "returned"]

\* The execution layer is between two calls.  A panic unwinds the emulation
\* session, so no call follows one.
Idle == last.op = "none"

ReadCall(op, operand, seg_override, r) ==
    [op |-> op, operand |-> operand, seg_override |-> seg_override,
     outcome |-> r.outcome, ret |-> r.ret, bus |-> r.bus]

WriteCall(op, operand, seg_override, value, r) ==
    [op |-> op, operand |-> operand, seg_override |-> seg_override,
     value |-> value, outcome |-> r.outcome, ret |-> r.ret, bus |-> r.bus]

\* The call stores into a register: the exploration counts these.
CountWrite(operand, kind) ==
    IF operand.kind = kind
    THEN nwrites < MaxWrites /\ nwrites' = nwrites + 1
    ELSE nwrites' = nwrites

ReadOperand8(operands) ==
    /\ Idle
    /\ \E operand \in operands, seg_override \in SegmentOverrides :
       \E answer \in AnswersFor(operand, BusRead8Answers) :
          LET r == read_operand8(cpu, operand, seg_override, answer)
          IN  /\ cpu' = r.cpu
              /\ last' = ReadCall("read_operand8", operand, seg_override, r)
    /\ UNCHANGED nwrites

ReadOperand16(operands) ==
    /\ Idle
    /\ \E operand \in operands, seg_override \in SegmentOverrides :
       \E answer \in AnswersFor(operand, BusRead16Answers) :
          LET r == read_operand16(cpu, operand, seg_override, answer)
          IN  /\ cpu' = r.cpu
              /\ last' = ReadCall("read_operand16", operand, seg_override, r)
    /\ UNCHANGED nwrites

WriteOperand8(operands) ==
    /\ Idle
    /\ \E operand \in operands, seg_override \in SegmentOverrides,
          value \in ByteVals :
       \E answer \in AnswersFor(operand, BusWriteAnswers) :
          LET r == write_operand8(cpu, operand, seg_override, value, answer)
          IN  /\ CountWrite(operand, "Register8")
              /\ cpu' = r.cpu
              /\ last' = WriteCall("write_operand8", operand, seg_override, value, r)

WriteOperand16(operands) ==
    /\ Idle
    /\ \E operand \in operands, seg_override \in SegmentOverrides,
          value \in WordVals :
       \E answer \in AnswersFor(operand, BusWriteAnswers) :
          LET r == write_operand16(cpu, operand, seg_override, value, answer)
          IN  /\ CountWrite(operand, "Register16")
              /\ cpu' = r.cpu
              /\ last' = WriteCall("write_operand16", operand, seg_override, value, r)

\* calc_effective_address called on its own.
CalcEffectiveAddress ==
    /\ Idle
    /\ \E mode \in AddressingModes, seg_override \in SegmentOverrides :
          LET ea == calc_effective_address(cpu, mode, seg_override)
          IN  last' = [op |-> "calc_effective_address", mode |-> mode,
                       seg_override |-> seg_override,
                       outcome |-> IF ea.tag = "panic" THEN "panic" ELSE "returned",
                       ea |-> ea]
    /\ UNCHANGED <<cpu, nwrites>>

\* The execution layer takes the result of a call that returned and goes on:
\* operands and results live for one call only.
Retire ==
    /\ last.op # "none"
    /\ last.outcome = "returned"
    /\ last' = NoCall
    /\ UNCHANGED <<cpu, nwrites>>

---------------------------------------------------------------------------
(* Register files the explorations start from *)

\* Segment registers: all different, and a file at the top of the address space.
SegmentFiles ==
    {[es |-> 3584, cs |-> 61440, ss |-> 21760, ds |-> 8192],
     [es |-> 0, cs |-> 61440, ss |-> 65535, ds |-> 65535]}

\* Effective-address exploration: every combination of base and index values.
InitEA ==
    /\ cpu \in {MakeCpu(4660, bx, 22136, 39612, 256, bp, si, di, 3584, 61440, 21760, 8192) :
                   bx \in BaseVals, bp \in BaseVals, si \in BaseVals, di \in BaseVals}
    /\ last = NoCall
    /\ nwrites = 0

\* Accessor exploration: a few register files, two segment files.
Init ==
    /\ cpu \in {MakeCpu(4660, bx, 22136, 39612, 256, bp, si, 1, s.es, s.cs, s.ss, s.ds) :
                   bx \in {16, 512}, bp \in {16, 4096}, si \in {0, 80}, s \in SegmentFiles}
    /\ last = NoCall
    /\ nwrites = 0

\* Register exploration: one register file.
InitReg ==
    /\ cpu = MakeCpu(4660, 512, 22136, 39612, 256, 4096, 80, 1, 3584, 61440, 21760, 8192)
    /\ last = NoCall
    /\ nwrites = 0

\* Every operand that write_operand8 (write_operand16) does not store into a register for.
NonRegister8Operands  == Operands \ Register8Operands
NonRegister16Operands == Operands \ {Reg16Operand(r) : r \in LegalRegister16Ids}

\* Calls on memory operands and on operands that are not write targets.
Next ==
    \/ ReadOperand8(Operands)
    \/ ReadOperand16(Operands)
    \/ WriteOperand8(NonRegister8Operands)
    \/ WriteOperand16(NonRegister16Operands)
    \/ Retire

Spec == Init /\ [][Next]_vars

\* Calls on register operands of the accessor's width, in sequences of up to
\* MaxWrites register writes.
NextReg ==
    \/ ReadOperand8(Register8Operands)
    \/ ReadOperand16(Register16Operands)
    \/ WriteOperand8(Register8Operands)
    \/ WriteOperand16(Register16Operands)
    \/ Retire

SpecReg == InitReg /\ [][NextReg]_vars

\* calc_effective_address over every mode, override and base/index combination.
NextEA == CalcEffectiveAddress \/ Retire

SpecEA == InitEA /\ [][NextEA]_vars


---------------------------------------------------------------------------
(* Properties *)

Accessors ==
    {"read_operand8", "read_operand16", "write_operand8", "write_operand16"}

\* The last call was an accessor call on an operand naming a memory location.
MemoryCall ==
    /\ last.op \in Accessors
    /\ last.operand.kind = "AddressingMode"
    /\ last.operand.mode \in MemoryModes

\* The modes whose base is BP.
BpModes ==
    {"BpSi", "BpDi", "BpSiDisp8", "BpDiDisp8", "BpDisp8",
     "BpSiDisp16", "BpDiDisp16", "BpDisp16"}

\* The segment register an override names.
OverrideRegister(c, seg_override) ==
    CASE seg_override = "SegmentES" -> c.es
      [] seg_override = "SegmentCS" -> c.cs
      [] seg_override = "SegmentSS" -> c.ss
      [] seg_override = "SegmentDS" -> c.ds

\* C1: for every memory addressing mode and register state, the segment
\* calc_effective_address returns is, with no override, SS for the BP-based
\* modes and DS for every other mode, and with an override the segment
\* register the override names, whatever the mode's default.
C1_SegmentResolved ==
    (last.op = "calc_effective_address" /\ last.mode \in MemoryModes) =>
        /\ last.ea.tag = "ok"
        /\ last.ea.segment =
              IF last.seg_override = "NoOverride"
              THEN (IF last.mode.name \in BpModes THEN cpu.ss ELSE cpu.ds)
              ELSE OverrideRegister(cpu, last.seg_override)

\* A BP-based mode without override resolved to SS, which differs from DS.
C1_Witness ==
    /\ last.op = "calc_effective_address"
    /\ last.mode = [name |-> "BpSiDisp16", disp |-> Disp16(-1)]
    /\ last.seg_override = "NoOverride"
    /\ last.ea.segment = cpu.ss
    /\ cpu.ss # cpu.ds

\* The registers a mode adds up.
BxNames == {"BxSi", "BxDi", "Bx", "BxSiDisp8", "BxDiDisp8", "BxDisp8",
            "BxSiDisp16", "BxDiDisp16", "BxDisp16"}
SiNames == {"BxSi", "BpSi", "Si", "BxSiDisp8", "BpSiDisp8", "SiDisp8",
            "BxSiDisp16", "BpSiDisp16", "SiDisp16"}
DiNames == {"BxDi", "BpDi", "Di", "BxDiDisp8", "BpDiDisp8", "DiDisp8",
            "BxDiDisp16", "BpDiDisp16", "DiDisp16"}

RegisterSum(c, name) ==
    (IF name \in BxNames THEN c.bx ELSE 0)
    + (IF name \in BpModes THEN c.bp ELSE 0)
    + (IF name \in SiNames THEN c.si ELSE 0)
    + (IF name \in DiNames THEN c.di ELSE 0)

\* Zero, the signed 8-bit value, or the 16-bit value taken as unsigned.
DisplacementOf(mode) ==
    IF mode.name \in NoDispModes THEN 0
    ELSE IF mode.name \in Disp8Modes THEN mode.disp.val
    ELSE IF mode.disp.val < 0 THEN mode.disp.val + 65536 ELSE mode.disp.val

\* C2: for every memory addressing mode and register state, the offset
\* calc_effective_address returns is (registers named by the mode +
\* displacement) mod 65536, and it is the same under all five overrides.
C2_OffsetWraps ==
    (last.op = "calc_effective_address" /\ last.mode \in MemoryModes) =>
        /\ last.ea.offset \in 0..65535
        /\ \E q \in -1..3 :
              RegisterSum(cpu, last.mode.name) + DisplacementOf(last.mode)
                 = q * 65536 + last.ea.offset
        /\ \A s \in SegmentOverrides :
              calc_effective_address(cpu, last.mode, s).offset = last.ea.offset

\* Base 0xFFFF with displacement 1 gave offset 0.
C2_Witness ==
    /\ last.op = "calc_effective_address"
    /\ last.mode = [name |-> "BxDisp8", disp |-> Disp8(1)]
    /\ cpu.bx = 65535
    /\ last.ea.offset = 0

\* The bus operation each accessor issues.
BusKindOf(op) ==
    CASE op = "read_operand8"   -> "read_u8"
      [] op = "read_operand16"  -> "read_u16"
      [] op = "write_operand8"  -> "write_u8"
      [] op = "write_operand16" -> "write_u16"

\* C3: a call of an accessor on a memory operand issues exactly one bus
\* access, of the accessor's kind and width, at (segment*16 + offset) mod
\* 2^20 for the effective address of the mode and override; a write carries
\* the value given.
C3_OneAccessAtLinearAddress ==
    MemoryCall =>
        LET ea == calc_effective_address(cpu, last.operand.mode, last.seg_override)
        IN  /\ Len(last.bus) = 1
            /\ last.bus[1].kind = BusKindOf(last.op)
            /\ last.bus[1].addr \in 0..1048575
            /\ \E q \in 0..1 :
                  ea.segment * 16 + ea.offset = q * 1048576 + last.bus[1].addr
            /\ last.op \in {"write_operand8", "write_operand16"} =>
                  last.bus[1].value = last.value

\* Segment 0xFFFF with offset 0x0010 accessed address 0.
C3_Witness ==
    /\ MemoryCall
    /\ last.op = "read_operand16"
    /\ last.operand.mode = [name |-> "Bx"]
    /\ cpu.ds = 65535 /\ cpu.bx = 16
    /\ last.seg_override = "NoOverride"
    /\ last.bus[1].addr = 0

\* C4: when the bus reports a failure for the access of a memory operand,
\* the accessor returns to its caller with an outcome that is neither a
\* success nor the 'no value' of a kind mismatch; it does not abort.
C4_BusFailureReturned ==
    (MemoryCall /\ Len(last.bus) = 1 /\ ~last.bus[1].answer.ok) =>
        /\ last.outcome = "returned"
        /\ last.ret.tag \notin {"Some", "None", "Unit"}

\* C5: write_operand8 on an operand that is neither Register8 nor
\* AddressingMode, and write_operand16 on one that is neither Register16 nor
\* AddressingMode, returns having changed no register and issued no bus access.
C5_NonTargetWriteIsNoOp ==
    [][ ( \/ /\ last'.op = "write_operand8"
             /\ last'.operand.kind \notin {"Register8", "AddressingMode"}
          \/ /\ last'.op = "write_operand16"
             /\ last'.operand.kind \notin {"Register16", "AddressingMode"} )
        => /\ cpu' = cpu
           /\ last'.bus = <<>>
           /\ last'.outcome = "returned" ]_vars

\* write_operand8 was called on a 16-bit register operand.
C5_Witness ==
    /\ last.op = "write_operand8"
    /\ last.operand = Reg16Operand("AX")
    /\ last.value = 255
    /\ last.outcome = "returned"

Read8NoValueKinds ==
    {"Immediate16", "Relative16", "Offset8", "Offset16", "Register16",
     "NearAddress", "FarAddress", "NoOperand", "InvalidOperand"}

Read16NoValueKinds ==
    {"Immediate8", "Relative8", "Offset8", "Offset16", "Register8",
     "NearAddress", "FarAddress", "NoOperand", "InvalidOperand"}

\* C6: read_operand8 (read_operand16) returns None for every operand kind
\* that carries no 8-bit (16-bit) value, without a bus access, without
\* changing a register and without aborting.
C6_MismatchReadsNone ==
    [][ ( \/ /\ last'.op = "read_operand8"
             /\ last'.operand.kind \in Read8NoValueKinds
          \/ /\ last'.op = "read_operand16"
             /\ last'.operand.kind \in Read16NoValueKinds )
        => /\ last'.outcome = "returned"
           /\ last'.ret = None
           /\ last'.bus = <<>>
           /\ cpu' = cpu ]_vars

\* read_operand8 was called on a 16-bit register operand and returned None.
C6_Witness ==
    /\ last.op = "read_operand8"
    /\ last.operand = Reg16Operand("BX")
    /\ last.seg_override = "SegmentCS"
    /\ last.ret = None

OtherHalf(reg8) ==
    CASE reg8 = "AH" -> "AL" [] reg8 = "AL" -> "AH"
      [] reg8 = "BH" -> "BL" [] reg8 = "BL" -> "BH"
      [] reg8 = "CH" -> "CL" [] reg8 = "CL" -> "CH"
      [] reg8 = "DH" -> "DL" [] reg8 = "DL" -> "DH"

\* C7: after write_operand8(Register8(r), v), read_operand8(Register8(r))
\* returns v and read_operand8 of the other half of the same 16-bit register
\* returns what it returned before the write, under every override.
C7_Register8RoundTrip ==
    [][ (last'.op = "write_operand8" /\ last'.operand.kind = "Register8") =>
          \A s \in SegmentOverrides, a \in BusRead8Answers :
             LET other == Reg8Operand(OtherHalf(last'.operand.reg))
             IN  /\ read_operand8(cpu', last'.operand, s, a).ret = Some(last'.value)
                 /\ read_operand8(cpu', other, s, a).ret
                       = read_operand8(cpu, other, s, a).ret ]_vars

\* AH was written with 0xFF while AL still holds the low byte of 0x1234.
C7_Witness ==
    /\ last.op = "write_operand8"
    /\ last.operand = Reg8Operand("AH")
    /\ last.value = 255
    /\ cpu.ah = 255
    /\ cpu.al = 52

RegisterPairs ==
    {<<"AX", "AH", "AL">>, <<"BX", "BH", "BL">>,
     <<"CX", "CH", "CL">>, <<"DX", "DH", "DL">>}

\* C8: after any sequence of register writes through write_operand8 and
\* write_operand16, read_operand16 of AX, BX, CX, DX returns
\* 256 * (read_operand8 of the high half) + (read_operand8 of the low half).
C8_HalvesAliasRegister ==
    \A p \in RegisterPairs :
        LET w  == read_operand16(cpu, Reg16Operand(p[1]), "NoOverride", BusErr).ret
            hi == read_operand8(cpu, Reg8Operand(p[2]), "NoOverride", BusErr).ret
            lo == read_operand8(cpu, Reg8Operand(p[3]), "NoOverride", BusErr).ret
        IN  /\ w.tag = "Some" /\ hi.tag = "Some" /\ lo.tag = "Some"
            /\ w.val = 256 * hi.val + lo.val

\* AX was written with 0xBEEF and then AH with 0x5A: AX reads 0x5AEF.
C8_Witness ==
    /\ nwrites = 2
    /\ last.op = "write_operand8"
    /\ last.operand = Reg8Operand("AH")
    /\ cpu.ax = 23279
    /\ cpu.ah = 90
    /\ cpu.al = 239

\* C9: an accessor called with AddressingMode(RegisterMode) panics under
\* every override and register state: it returns nothing, issues no bus
\* access and changes no register.
C9_RegisterModePanics ==
    [][ (last'.op \in Accessors /\ last'.operand = ModeOperand(RegisterMode)) =>
          /\ last'.outcome = "panic"
          /\ last'.ret = Unwound
          /\ last'.bus = <<>>
          /\ cpu' = cpu ]_vars

\* write_operand16 was called with AddressingMode(RegisterMode) and panicked.
C9_Witness ==
    /\ last.op = "write_operand16"
    /\ last.operand = ModeOperand(RegisterMode)
    /\ last.seg_override = "SegmentSS"
    /\ last.outcome = "panic"

\* What the caller of an accessor can observe of a call.
Observed(r) == [outcome |-> r.outcome, ret |-> r.ret, cpu |-> r.cpu]

\* The last call made again from the same registers, the bus answering `answer`.
Redo(answer) ==
    CASE last.op = "read_operand8" ->
            read_operand8(cpu, last.operand, last.seg_override, answer)
      [] last.op = "read_operand16" ->
            read_operand16(cpu, last.operand, last.seg_override, answer)
      [] last.op = "write_operand8" ->
            write_operand8(cpu, last.operand, last.seg_override, last.value, answer)
      [] last.op = "write_operand16" ->
            write_operand16(cpu, last.operand, last.seg_override, last.value, answer)

\* C10: for every successful access of a memory operand the cost the bus
\* reported reaches the caller: had the bus reported another cost, the caller
\* would observe another result.
C10_CostSurfaced ==
    (MemoryCall /\ Len(last.bus) = 1 /\ last.bus[1].answer.ok) =>
        \A k \in BusCosts \ {last.bus[1].answer.cost} :
            Observed(Redo([last.bus[1].answer EXCEPT !.cost = k]))
               # Observed(Redo(last.bus[1].answer))

=============================================================================
